---- MODULE Spec2Model ----
(***************************************************************************)
(* DatetimeChunked (polars-core, chunked_array/temporal/datetime.rs):      *)
(* a nullable column of i64 ticks tagged with a time unit and an optional  *)
(* time zone, with the operations cast_time_unit, set_time_unit,           *)
(* cast_time_zone, set_time_zone, with_time_zone, apply_on_tz_corrected    *)
(* and strftime.                                                           *)
(*                                                                         *)
(* Option<T> is a sequence of length 0 (None) or 1 (Some).  A result is a  *)
(* record tagged by kind: "ok" (a column), "unit" (Ok(())), "text" (a Utf8 *)
(* column), "err" (a PolarsError) or "panic" (the thread unwinds).         *)
(***************************************************************************)
EXTENDS Integers, Sequences, FiniteSets, TLC

\* ---------------------------------------------------------------- bounds
\* Width of the tick integers of the model.  The code's ticks are i64; the
\* model keeps two's complement arithmetic at a width TLC's integers can
\* hold, with the code's own scale factors.
IntWidth == 24
\* Longest column enumerated.
MaxLen == 2

\* ------------------------------------------------------ program constants
Thousand == 1000
Million == 1000000

Modulus == 2 ^ IntWidth
MaxInt == (2 ^ (IntWidth - 1)) - 1
MinInt == -(2 ^ (IntWidth - 1))

None == <<>>
Some(v) == <<v>>
IsSome(o) == Len(o) = 1
Unwrap(o) == o[1]

TimeUnits == {"Nanoseconds", "Microseconds", "Milliseconds"}

\* Zone strings offered to the program: "UTC", which arrow's parse_offset
\* accepts, a named zone it rejects and chrono_tz accepts, and a string that
\* is neither.
FixedOffsets == {"UTC"}
NamedZones == {"UTC", "Asia/Kathmandu"}
InvalidZones == {"Not/AZone"}
ZoneStrings == FixedOffsets \cup NamedZones \cup InvalidZones
Zones == {None} \cup {Some(z) : z \in ZoneStrings}

Names == {"ts"}

\* Ticks offered to the program: non-multiples and multiples of the scale
\* factors, of both signs, small enough and large enough for a product with a
\* scale factor to fit and to overflow.
TickValues == {-1500000, 1, 1500000, 2000000}
Ticks == {None} \cup {Some(v) : v \in TickValues}

RECURSIVE SeqsUpTo(_, _)
SeqsUpTo(S, n) ==
    IF n = 0 THEN {<<>>}
    ELSE LET shorter == SeqsUpTo(S, n - 1)
         IN shorter \cup {Append(s, x) : s \in {t \in shorter : Len(t) = n - 1}, x \in S}

\* A column as into_datetime builds it: the ticks, Datetime(tu, tz) and the
\* name.  into_datetime takes the zone as given, without validation.
Columns ==
    [ticks : SeqsUpTo(Ticks, MaxLen), unit : TimeUnits, zone : Zones, name : Names]

\* ---------------------------------------------------------------- results
Ok(c) == [kind |-> "ok", col |-> c]
OkUnit == [kind |-> "unit"]
OkText(t) == [kind |-> "text", text |-> t]
Err(e) == [kind |-> "err", err |-> e]
Panic(m) == [kind |-> "panic", msg |-> m]
NoResult == [kind |-> "none"]

\* ------------------------------------------------------------- arithmetic
\* An integer reduced to the two's complement range of the ticks.
Wrap(x) ==
    LET r == x % Modulus
    IN IF r > MaxInt THEN r - Modulus ELSE r

RECURSIVE MulModU(_, _)
MulModU(a, b) ==
    IF b = 0 THEN 0
    ELSE LET h == MulModU(a, b \div 2)
         IN (2 * h + (IF b % 2 = 1 THEN a ELSE 0)) % Modulus

\* v * f leaves the integer range (f > 0).
MulOverflows(v, f) == v > MaxInt \div f \/ v < -((-MinInt) \div f)

\* v * f as wrapping two's complement multiplication.
WrappingMul(v, f) ==
    LET r == MulModU(v % Modulus, f)
    IN IF r > MaxInt THEN r - Modulus ELSE r

\* Rust's integer division: the quotient truncated toward zero.
TruncDiv(v, f) == IF v >= 0 THEN v \div f ELSE -((-v) \div f)

\* Division that rounds to the nearest quotient.
RoundDiv(v, f) == IF v >= 0 THEN (v + f \div 2) \div f ELSE -(((-v) + f \div 2) \div f)

div_scalar_round(ticks, f) ==
    Ok([i \in 1..Len(ticks) |->
          IF IsSome(ticks[i]) THEN Some(RoundDiv(Unwrap(ticks[i]), f)) ELSE None])

\* &self.0 / f: every non-null value divided, nulls kept.
div_scalar(ticks, f) ==
    Ok([i \in 1..Len(ticks) |->
          IF IsSome(ticks[i]) THEN Some(TruncDiv(Unwrap(ticks[i]), f)) ELSE None])

\* &self.0 * f: every non-null value multiplied, nulls kept.  The product is
\* the i64 product: on overflow it panics in a build with overflow checks and
\* wraps in a build without.
mul_scalar(ticks, f, overflow_checks) ==
    IF overflow_checks
       /\ \E i \in 1..Len(ticks) : IsSome(ticks[i]) /\ MulOverflows(Unwrap(ticks[i]), f)
    THEN Panic("attempt to multiply with overflow")
    ELSE Ok([i \in 1..Len(ticks) |->
               IF IsSome(ticks[i]) THEN Some(WrappingMul(Unwrap(ticks[i]), f)) ELSE None])

\* ---------------------------------------------------------------- accessors
time_unit(self) == self.unit
time_zone(self) == self.zone

set_time_unit_drops_zone(self, tu) == [self EXCEPT !.unit = tu, !.zone = None]

\* self.2 = Some(Datetime(tu, self.time_zone().clone()))
set_time_unit(self, tu) == [self EXCEPT !.unit = tu]

\* The arithmetic cast_time_unit applies for (current_unit, tu).
unit_arith(ticks, current_unit, tu, overflow_checks) ==
    CASE current_unit = "Nanoseconds" /\ tu = "Microseconds" -> div_scalar(ticks, Thousand)
      [] current_unit = "Nanoseconds" /\ tu = "Milliseconds" -> div_scalar(ticks, Million)
      [] current_unit = "Microseconds" /\ tu = "Nanoseconds" ->
             mul_scalar(ticks, Thousand, overflow_checks)
      [] current_unit = "Microseconds" /\ tu = "Milliseconds" -> div_scalar(ticks, Thousand)
      [] current_unit = "Milliseconds" /\ tu = "Nanoseconds" ->
             mul_scalar(ticks, Million, overflow_checks)
      [] current_unit = "Milliseconds" /\ tu = "Microseconds" ->
             mul_scalar(ticks, Thousand, overflow_checks)
      [] OTHER -> Ok(ticks)

\* cast_time_unit: clone, set_time_unit(tu), then replace the ticks.
cast_time_unit(self, tu, overflow_checks) ==
    LET current_unit == time_unit(self)
        out == set_time_unit(self, tu)
        ca == unit_arith(self.ticks, current_unit, tu, overflow_checks)
    IN IF ca.kind = "ok" THEN Ok([out EXCEPT !.ticks = ca.col]) ELSE ca

\* ------------------------------------------------------------------ zones
\* arrow's parse_offset accepts "UTC" and the +hh:mm / -hh:mm offsets.
parse_offset_ok(tz) == tz \in FixedOffsets
\* tz.parse::<chrono_tz::Tz>() accepts the names of the zone database.
parse_tz_ok(tz) == tz \in NamedZones

\* validate_time_zone: a fixed offset first, a named zone second, else
\* ComputeError("Could not parse timezone: '{tz}'").
validate_time_zone(tz) ==
    IF parse_offset_ok(tz) THEN OkUnit
    ELSE IF parse_tz_ok(tz) THEN OkUnit
    ELSE Err(<<"ComputeError", "Could not parse timezone", tz>>)

\* Ticks of the coarsest unit (milliseconds) in one tick of offset, per unit.
UnitsPerMs(tu) ==
    CASE tu = "Nanoseconds" -> Million
      [] tu = "Microseconds" -> Thousand
      [] OTHER -> 1

\* The zone database: each zone's offset from UTC, in milliseconds, at the
\* scale of the model's integers.
ZoneOffset(tz) ==
    CASE tz = "Asia/Kathmandu" -> 1
      [] OTHER -> 0

\* One tick moved from the wall clock of zone `from` to that of zone `to`.
ConvertInstant(v, tu, from, to) ==
    Wrap(v + (ZoneOffset(to) - ZoneOffset(from)) * UnitsPerMs(tu))

\* The kernel polars_arrow::kernels::cast_timezone, called by cast_time_zone
\* with the target zone as third and the source zone as fourth argument: an
\* error when a zone string is no zone, else every non-null tick converted.
cast_timezone(arr, tu, to, from) ==
    IF validate_time_zone(from).kind # "unit" THEN Err(<<"InvalidTimeZone", from>>)
    ELSE IF validate_time_zone(to).kind # "unit" THEN Err(<<"InvalidTimeZone", to>>)
    ELSE Ok([i \in 1..Len(arr) |->
               IF IsSome(arr[i]) THEN Some(ConvertInstant(Unwrap(arr[i]), tu, from, to))
               ELSE None])

\* out.into_datetime(tu, tz) on the chunks the kernel returned, under self's name.
into_datetime(name, chunks, tu, tz) ==
    IF chunks.kind = "ok"
    THEN Ok([ticks |-> chunks.col, unit |-> tu, zone |-> tz, name |-> name])
    ELSE chunks

cast_time_zone_naive_unconverted(self, tz) ==
    IF IsSome(time_zone(self)) /\ IsSome(tz) THEN
        into_datetime(self.name,
                      cast_timezone(self.ticks, time_unit(self), Unwrap(tz),
                                    Unwrap(time_zone(self))),
                      time_unit(self), Some(Unwrap(tz)))
    ELSE IF IsSome(time_zone(self)) THEN
        into_datetime(self.name,
                      cast_timezone(self.ticks, time_unit(self), "UTC",
                                    Unwrap(time_zone(self))),
                      time_unit(self), None)
    ELSE IF IsSome(tz) THEN
        into_datetime(self.name,
                      cast_timezone(self.ticks, time_unit(self), Unwrap(tz), Unwrap(tz)),
                      time_unit(self), Some(Unwrap(tz)))
    ELSE Ok(self)

\* cast_time_zone: the match on (self.time_zone(), tz).
cast_time_zone(self, tz) ==
    IF IsSome(time_zone(self)) /\ IsSome(tz) THEN
        into_datetime(self.name,
                      cast_timezone(self.ticks, time_unit(self), Unwrap(tz),
                                    Unwrap(time_zone(self))),
                      time_unit(self), Some(Unwrap(tz)))
    ELSE IF IsSome(time_zone(self)) THEN
        into_datetime(self.name,
                      cast_timezone(self.ticks, time_unit(self), "UTC",
                                    Unwrap(time_zone(self))),
                      time_unit(self), None)
    ELSE IF IsSome(tz) THEN
        into_datetime(self.name,
                      cast_timezone(self.ticks, time_unit(self), Unwrap(tz), "UTC"),
                      time_unit(self), Some(Unwrap(tz)))
    ELSE Ok(self)

set_time_zone_unvalidated(self, tz) ==
    [res |-> OkUnit, self |-> [self EXCEPT !.zone = Some(tz)]]

\* set_time_zone(&mut self, tz): validate_time_zone(tz)?, then store the zone.
\* The result and self as the call leaves it.
set_time_zone(self, tz) ==
    LET v == validate_time_zone(tz)
    IN IF v.kind # "unit" THEN [res |-> v, self |-> self]
       ELSE [res |-> OkUnit, self |-> [self EXCEPT !.zone = Some(tz)]]

NaiveError ==
    Err(<<"ComputeError", "Cannot call with_time_zone on tz-naive", "">>)

with_time_zone_on_naive(self, tz) ==
    LET s == set_time_zone(self, tz)
    IN IF s.res.kind # "unit" THEN s.res ELSE Ok(s.self)

\* with_time_zone(self, tz): set_time_zone on a column that has a zone, an
\* error on a naive one.
with_time_zone(self, tz) ==
    IF IsSome(time_zone(self)) THEN
        LET s == set_time_zone(self, tz)
        IN IF s.res.kind # "unit" THEN s.res ELSE Ok(s.self)
    ELSE NaiveError

\* ------------------------------------------------------------ the wrapper
\* The closures handed to apply_on_tz_corrected: one that returns its
\* argument, one that changes the ticks, one that fails, one that returns a
\* naive column.
Funcs == {"identity", "add_one", "fail", "to_naive"}

call_func(func, ca) ==
    CASE func = "identity" -> Ok(ca)
      [] func = "add_one" ->
             Ok([ca EXCEPT !.ticks = [i \in 1..Len(ca.ticks) |->
                    IF IsSome(ca.ticks[i]) THEN Some(Wrap(Unwrap(ca.ticks[i]) + 1))
                    ELSE None]])
      [] func = "fail" -> Err(<<"ComputeError", "func failed", "">>)
      [] OTHER -> Ok([ca EXCEPT !.zone = None])

\* One call an operation made: the callee, its receiver, its argument and
\* what it returned.
Call(name, self, arg, res) == [call |-> name, self |-> self, arg |-> arg, res |-> res]

apply_on_tz_corrected_no_cast_back(self, func) ==
    LET zoned == IsSome(time_zone(self))
        first == IF zoned THEN cast_time_zone(self, Some("UTC")) ELSE Ok(self)
        t1 == IF zoned THEN <<Call("cast_time_zone", self, Some("UTC"), first)>> ELSE <<>>
    IN IF first.kind # "ok" THEN [res |-> first, trace |-> t1]
       ELSE
        LET o == call_func(func, first.col)
            t2 == Append(t1, Call("func", first.col, None, o))
        IN IF o.kind # "ok" \/ ~zoned THEN [res |-> o, trace |-> t2]
           ELSE
            LET w == with_time_zone(o.col, "UTC")
                t3 == Append(t2, Call("with_time_zone", o.col, Some("UTC"), w))
            IN [res |-> w, trace |-> t3]

apply_on_tz_corrected_swallows_error(self, func) ==
    LET zoned == IsSome(time_zone(self))
        first == IF zoned THEN cast_time_zone(self, Some("UTC")) ELSE Ok(self)
        t1 == IF zoned THEN <<Call("cast_time_zone", self, Some("UTC"), first)>> ELSE <<>>
    IN IF first.kind # "ok" THEN [res |-> first, trace |-> t1]
       ELSE
        LET o == call_func(func, first.col)
            t2 == Append(t1, Call("func", first.col, None, o))
        IN IF o.kind # "ok" THEN [res |-> Ok(self), trace |-> t2]
           ELSE IF ~zoned THEN [res |-> o, trace |-> t2]
           ELSE
            LET w == with_time_zone(o.col, "UTC")
                t3 == Append(t2, Call("with_time_zone", o.col, Some("UTC"), w))
            IN IF w.kind # "ok" THEN [res |-> w, trace |-> t3]
               ELSE
                LET back == cast_time_zone(w.col, time_zone(self))
                IN [res |-> back,
                    trace |-> Append(t3, Call("cast_time_zone", w.col, time_zone(self), back))]

\* apply_on_tz_corrected: a zoned self is cast to "UTC", func is called on
\* the clone, and for a zoned self the output is relabelled "UTC" and cast
\* back to self's zone; the first three return early on an error.  The
\* result and the calls made.
apply_on_tz_corrected(self, func) ==
    LET zoned == IsSome(time_zone(self))
        first == IF zoned THEN cast_time_zone(self, Some("UTC")) ELSE Ok(self)
        t1 == IF zoned THEN <<Call("cast_time_zone", self, Some("UTC"), first)>> ELSE <<>>
    IN IF first.kind # "ok" THEN [res |-> first, trace |-> t1]
       ELSE
        LET o == call_func(func, first.col)
            t2 == Append(t1, Call("func", first.col, None, o))
        IN IF o.kind # "ok" \/ ~zoned THEN [res |-> o, trace |-> t2]
           ELSE
            LET w == with_time_zone(o.col, "UTC")
                t3 == Append(t2, Call("with_time_zone", o.col, Some("UTC"), w))
            IN IF w.kind # "ok" THEN [res |-> w, trace |-> t3]
               ELSE
                LET back == cast_time_zone(w.col, time_zone(self))
                IN [res |-> back,
                    trace |-> Append(t3, Call("cast_time_zone", w.col, time_zone(self), back))]

\* --------------------------------------------------------------- rendering
\* Patterns handed to strftime: one chrono renders and one it rejects.
Formats == {"%Y-%m-%d", "%Q"}
\* Display of chrono's DelayedFormat succeeds for the pattern.
pattern_renders(fmt) == fmt # "%Q"

\* timestamp_{ns,us,ms}_to_datetime: the seconds since the epoch (floored)
\* and the nanoseconds within the second.
conversion_f(tu, v) ==
    CASE tu = "Nanoseconds" ->
             [secs |-> v \div (Thousand * Million), nanos |-> v % (Thousand * Million)]
      [] tu = "Microseconds" ->
             [secs |-> v \div Million, nanos |-> (v % Million) * Thousand]
      [] OTHER ->
             [secs |-> v \div Thousand, nanos |-> (v % Thousand) * Million]

\* The text chrono writes for a calendar value under a pattern.
Render(dt, fmt) == [fmt |-> fmt, dt |-> dt]

strftime_null_as_empty(self, fmt) ==
    IF ~pattern_renders(fmt)
    THEN Panic("a formatting trait implementation returned an error")
    ELSE
      LET ca == IF IsSome(time_zone(self)) THEN cast_time_zone(self, Some("UTC"))
                ELSE Ok(self)
      IN IF ca.kind # "ok" THEN Panic("called Result::unwrap() on an Err value")
         ELSE OkText([vals |-> [i \in 1..Len(ca.col.ticks) |->
                                  IF IsSome(ca.col.ticks[i])
                                  THEN Some(Render(conversion_f(time_unit(self),
                                                                Unwrap(ca.col.ticks[i])), fmt))
                                  ELSE Some(Render(conversion_f(time_unit(self), 0), ""))],
                      name |-> self.name])

\* strftime: format!("{}", dt.format(fmt)) on a probe date, a zoned column
\* cast to "UTC" and unwrapped, then every non-null tick decoded and written.
strftime(self, fmt) ==
    IF ~pattern_renders(fmt)
    THEN Panic("a formatting trait implementation returned an error")
    ELSE
      LET ca == IF IsSome(time_zone(self)) THEN cast_time_zone(self, Some("UTC"))
                ELSE Ok(self)
      IN IF ca.kind # "ok" THEN Panic("called Result::unwrap() on an Err value")
         ELSE OkText([vals |-> [i \in 1..Len(ca.col.ticks) |->
                                  IF IsSome(ca.col.ticks[i])
                                  THEN Some(Render(conversion_f(time_unit(self),
                                                                Unwrap(ca.col.ticks[i])), fmt))
                                  ELSE None],
                      name |-> self.name])

\* ------------------------------------------------------------------- state
VARIABLES
    col,     \* the column the caller holds
    op,      \* the last operation called: [name, arg]
    inp,     \* the column as it was when that operation was called
    out,     \* what the operation returned
    trace    \* the calls the operation made, in order

vars == <<col, op, inp, out, trace>>

Init ==
    /\ col \in Columns
    /\ op = [name |-> "none", arg |-> None]
    /\ inp = col
    /\ out = NoResult
    /\ trace = <<>>

\* A panic unwinds the caller: nothing runs after it.
Alive == out.kind # "panic"

CastTimeUnit ==
    /\ Alive
    /\ \E tu \in TimeUnits, overflow_checks \in BOOLEAN :
          /\ out' = cast_time_unit(col, tu, overflow_checks)
          /\ op' = [name |-> "cast_time_unit", arg |-> tu]
    /\ inp' = col
    /\ trace' = <<>>
    /\ UNCHANGED col

SetTimeUnit ==
    /\ Alive
    /\ \E tu \in TimeUnits :
          /\ col' = set_time_unit(col, tu)
          /\ op' = [name |-> "set_time_unit", arg |-> tu]
    /\ inp' = col
    /\ out' = OkUnit
    /\ trace' = <<>>

\* A caller casting to another unit and back to the column's own.
CastTimeUnitRoundTrip ==
    /\ Alive
    /\ \E via \in TimeUnits \ {col.unit}, overflow_checks \in BOOLEAN :
          LET first == cast_time_unit(col, via, overflow_checks)
              t1 == <<Call("cast_time_unit", col, via, first)>>
          IN /\ op' = [name |-> "cast_time_unit_round_trip", arg |-> via]
             /\ IF first.kind # "ok"
                THEN out' = first /\ trace' = t1
                ELSE LET second == cast_time_unit(first.col, col.unit, overflow_checks)
                     IN /\ out' = second
                        /\ trace' = Append(t1, Call("cast_time_unit", first.col, col.unit, second))
    /\ inp' = col
    /\ UNCHANGED col

CastTimeZone ==
    /\ Alive
    /\ \E tz \in Zones :
          /\ out' = cast_time_zone(col, tz)
          /\ op' = [name |-> "cast_time_zone", arg |-> tz]
    /\ inp' = col
    /\ trace' = <<>>
    /\ UNCHANGED col

SetTimeZone ==
    /\ Alive
    /\ \E tz \in ZoneStrings :
          LET s == set_time_zone(col, tz)
          IN /\ col' = s.self
             /\ out' = s.res
             /\ op' = [name |-> "set_time_zone", arg |-> tz]
    /\ inp' = col
    /\ trace' = <<>>

WithTimeZone ==
    /\ Alive
    /\ \E tz \in ZoneStrings :
          /\ out' = with_time_zone(col, tz)
          /\ op' = [name |-> "with_time_zone", arg |-> tz]
    /\ inp' = col
    /\ trace' = <<>>
    /\ UNCHANGED col

ApplyOnTzCorrected ==
    /\ Alive
    /\ \E func \in Funcs :
          LET r == apply_on_tz_corrected(col, func)
          IN /\ out' = r.res
             /\ trace' = r.trace
             /\ op' = [name |-> "apply_on_tz_corrected", arg |-> func]
    /\ inp' = col
    /\ UNCHANGED col

Strftime ==
    /\ Alive
    /\ \E fmt \in Formats :
          /\ out' = strftime(col, fmt)
          /\ op' = [name |-> "strftime", arg |-> fmt]
    /\ inp' = col
    /\ trace' = <<>>
    /\ UNCHANGED col

Next ==
    \/ CastTimeUnit
    \/ CastTimeUnitRoundTrip
    \/ SetTimeUnit
    \/ CastTimeZone
    \/ SetTimeZone
    \/ WithTimeZone
    \/ ApplyOnTzCorrected
    \/ Strftime

Spec == Init /\ [][Next]_vars

\* ------------------------------------------------------------------ claims
Abs(x) == IF x < 0 THEN -x ELSE x

\* The resolution model: the units from finest to coarsest and the factor
\* between two of them.
UnitRank(tu) ==
    CASE tu = "Nanoseconds" -> 0
      [] tu = "Microseconds" -> 1
      [] OTHER -> 2
ScaleFactor(a, b) ==
    CASE Abs(UnitRank(a) - UnitRank(b)) = 2 -> Million
      [] Abs(UnitRank(a) - UnitRank(b)) = 1 -> Thousand
      [] OTHER -> 1

SameNullMask(a, b) ==
    /\ Len(a) = Len(b)
    /\ \A i \in 1..Len(a) : IsSome(a[i]) <=> IsSome(b[i])

\* C1: whenever cast_time_unit or cast_time_zone returns a column, or
\* strftime returns a text column, the output is as long as the input and
\* its element i is null exactly when the input's tick i is null.
C1_NullMaskAndLengthPreserved ==
    /\ (op.name \in {"cast_time_unit", "cast_time_zone"} /\ out.kind = "ok")
          => SameNullMask(inp.ticks, out.col.ticks)
    /\ (op.name = "strftime" /\ out.kind = "text")
          => SameNullMask(inp.ticks, out.text.vals)

C1_Witness ==
    /\ op.name = "strftime"
    /\ out.kind = "text"
    /\ IsSome(inp.zone)
    /\ Len(inp.ticks) = 2
    /\ inp.ticks[1] = None
    /\ IsSome(inp.ticks[2])
    /\ out.text.vals[1] = None
    /\ IsSome(out.text.vals[2])

\* C2: cast_time_unit never fails; toward a finer unit every non-null tick v
\* becomes v * f, toward a coarser unit v / f truncated toward zero, f being
\* the scale factor of the two units.
C2_CastTimeUnitScalesExactly ==
    op.name = "cast_time_unit" =>
      /\ out.kind = "ok"
      /\ LET f == ScaleFactor(inp.unit, op.arg)
         IN \A i \in 1..Len(inp.ticks) :
              IsSome(inp.ticks[i]) =>
                LET v == Unwrap(inp.ticks[i])
                    t == Unwrap(out.col.ticks[i])
                IN IF UnitRank(op.arg) < UnitRank(inp.unit)
                   THEN t % f = 0 /\ t \div f = v
                   ELSE /\ v >= 0 => t = v \div f
                        /\ v < 0 => t = -((-v) \div f)

\* C3: casting to a coarser unit and back to the column's own unit succeeds
\* and returns, for every non-null tick v, the multiple of the scale factor
\* between zero and v that lies less than one factor from v: v itself when v
\* is a multiple, v without its remainder otherwise (1_500_000 ns through ms
\* comes back as 1_000_000).
C3_RoundTripLosesOnlyRemainder ==
    (op.name = "cast_time_unit_round_trip" /\ UnitRank(op.arg) > UnitRank(inp.unit)) =>
      /\ out.kind = "ok"
      /\ out.col.unit = inp.unit
      /\ Len(out.col.ticks) = Len(inp.ticks)
      /\ LET f == ScaleFactor(inp.unit, op.arg)
         IN \A i \in 1..Len(inp.ticks) :
              IsSome(inp.ticks[i]) =>
                LET v == Unwrap(inp.ticks[i])
                    t == Unwrap(out.col.ticks[i])
                IN /\ t % f = 0
                   /\ Abs(t) <= Abs(v)
                   /\ Abs(v - t) < f
                   /\ (v % f = 0) => t = v
                   /\ (inp.unit = "Nanoseconds" /\ op.arg = "Milliseconds" /\ v = 1500000)
                         => t = 1000000

C3_Witness ==
    /\ op.name = "cast_time_unit_round_trip"
    /\ inp.unit = "Nanoseconds"
    /\ op.arg = "Milliseconds"
    /\ inp.ticks = <<Some(1500000), Some(2000000)>>
    /\ out.kind = "ok"
    /\ out.col.ticks = <<Some(1000000), Some(2000000)>>

C6_NeutralFrameOrder ==
    op.name = "apply_on_tz_corrected" =>
      LET zoned == IsSome(inp.zone)
          funcCalls == {i \in DOMAIN trace : trace[i].call = "func"}
      IN /\ Cardinality(funcCalls) <= 1
         /\ ~zoned =>
              /\ Len(trace) = 1
              /\ trace[1].call = "func"
              /\ trace[1].self = inp
              /\ out = trace[1].res
         /\ (zoned /\ Len(trace) >= 1 /\ trace[1].res.kind = "ok") =>
              /\ trace[1].call = "cast_time_zone"
              /\ trace[1].self = inp
              /\ trace[1].arg = Some("UTC")
              /\ trace[1].res.col.zone = Some("UTC")
              /\ Len(trace) >= 2
              /\ trace[2].call = "func"
              /\ trace[2].self = trace[1].res.col
         /\ (zoned /\ out.kind = "ok") =>
              /\ Len(trace) = 4
              /\ trace[1].res.kind = "ok"
              /\ trace[2].res.kind = "ok"
              /\ trace[3].call = "with_time_zone"
              /\ trace[3].self = trace[2].res.col
              /\ trace[3].res.kind = "ok"
              /\ trace[3].res.col = [trace[2].res.col EXCEPT !.zone = Some("UTC")]
              /\ trace[4].call = "cast_time_zone"
              /\ trace[4].self = trace[3].res.col
              /\ trace[4].arg = inp.zone
              /\ out = trace[4].res
              /\ out.col.zone = inp.zone

C6_Witness ==
    /\ op.name = "apply_on_tz_corrected"
    /\ op.arg = "add_one"
    /\ inp.zone = Some("Asia/Kathmandu")
    /\ Len(inp.ticks) = 2
    /\ out.kind = "ok"
    /\ out.col.zone = Some("Asia/Kathmandu")
    /\ Len(trace) = 4
    /\ out.col.ticks # inp.ticks

\* C7: in apply_on_tz_corrected a call that fails is the last call made and
\* its error is what the caller gets: a failed cast to "UTC" leaves the
\* transform uncalled, a failed transform leaves the relabelling and the cast
\* back unmade; a failure returns no column and leaves the input as it was,
\* and no call is made twice.
C7_FailureAborts ==
    op.name = "apply_on_tz_corrected" =>
      /\ out.kind \in {"ok", "err"}
      /\ col = inp
      /\ \A i \in DOMAIN trace :
            trace[i].res.kind # "ok" => (i = Len(trace) /\ out.kind = "err"
                                          /\ out.err = trace[i].res.err)
      /\ out.kind = "err" => (Len(trace) >= 1 /\ trace[Len(trace)].res.kind = "err")
      /\ (IsSome(inp.zone) /\ trace[1].res.kind = "err") =>
            (Len(trace) = 1 /\ trace[1].call = "cast_time_zone")
      /\ \A i, j \in DOMAIN trace :
            (i < j /\ trace[i].call = trace[j].call) =>
               (trace[i].call = "cast_time_zone" /\ i = 1 /\ j = 4)

C7_Witness ==
    /\ op.name = "apply_on_tz_corrected"
    /\ op.arg = "fail"
    /\ inp.zone = Some("Asia/Kathmandu")
    /\ Len(trace) = 2
    /\ trace[2].call = "func"
    /\ out.kind = "err"
    /\ out.err = trace[2].res.err
    /\ col = inp

\* C8: with_time_zone on a naive column returns an error whatever the zone
\* argument; on a column that has a zone, with a valid argument, it returns
\* the column with only its zone changed.
C8_WithTimeZone ==
    op.name = "with_time_zone" =>
      /\ inp.zone = None => (out.kind = "err" /\ col = inp)
      /\ (IsSome(inp.zone) /\ op.arg \notin InvalidZones) =>
            /\ out.kind = "ok"
            /\ out.col = [inp EXCEPT !.zone = Some(op.arg)]

C8_Witness ==
    /\ op.name = "with_time_zone"
    /\ inp.zone = None
    /\ op.arg = "UTC"
    /\ Len(inp.ticks) = 2
    /\ out.kind = "err"

\* C9: strftime surfaces a rendering failure (a pattern chrono rejects, or a
\* failed cast of a zoned column to "UTC") as an error and never panics.
C9_StrftimeFailureIsError ==
    op.name = "strftime" =>
      /\ out.kind # "panic"
      /\ (op.arg = "%Q" \/ (IsSome(inp.zone) /\ Unwrap(inp.zone) \in InvalidZones))
            => out.kind = "err"

\* C10: cast_time_unit leaves the input column as it was and returns a column
\* whose unit is the target and whose zone and name are the input's, with the
\* input's ticks when the target is the input's unit; set_time_unit changes
\* the unit of the column and nothing else.
C10_CastTimeUnitFrame ==
    /\ op.name = "cast_time_unit" => col = inp
    /\ (op.name = "cast_time_unit" /\ out.kind = "ok") =>
          /\ out.col.unit = op.arg
          /\ out.col.zone = inp.zone
          /\ out.col.name = inp.name
          /\ op.arg = inp.unit => out.col.ticks = inp.ticks
    /\ op.name = "set_time_unit" =>
          /\ col.unit = op.arg
          /\ col.ticks = inp.ticks
          /\ col.zone = inp.zone
          /\ col.name = inp.name

C10_Witness ==
    /\ op.name = "cast_time_unit"
    /\ out.kind = "ok"
    /\ inp.zone = Some("Asia/Kathmandu")
    /\ inp.unit = "Nanoseconds"
    /\ op.arg = "Milliseconds"
    /\ out.col.zone = inp.zone
    /\ out.col.unit = "Milliseconds"
    /\ out.col.ticks # inp.ticks

====
